---- MODULE Spec2Model ----
(***************************************************************************)
(* A model of emcc-sandboxd: the /compile request handler with its         *)
(* cgroup-driven memory admission controller, the argument filter and the  *)
(* artifact reclaimer.                                                     *)
(***************************************************************************)
EXTENDS Integers, Sequences, FiniteSets, TLC

(***************************************************************************)
(* Bounds of the model.                                                    *)
(***************************************************************************)
NumReqs == 2
NumIDs == 2

Reqs == 1..NumReqs
IDs == 1..NumIDs
NoOwner == 0
NoID == 0

(***************************************************************************)
(* Byte quantities, counted in units of 1 KiB.                             *)
(***************************************************************************)
MiB == 1024
DefaultEstimateBytes == 256 * MiB

\* Contents of <cgroupV2Root>/memory.max at the time of a read: unreadable
\* or unparsable, the literal "max", or a decimal byte count.
MaxFileValues ==
  { [kind |-> "err", val |-> 0],
    [kind |-> "max", val |-> 0],
    [kind |-> "num", val |-> 1024 * MiB] }

\* Contents of <cgroupV2Root>/memory.current at the time of a read.
CurFileValues ==
  { [kind |-> "err", val |-> 0],
    [kind |-> "num", val |-> 0],
    [kind |-> "num", val |-> 600 * MiB],
    [kind |-> "num", val |-> 900 * MiB] }

\* Time is counted in minutes: 24 * time.Hour, and the interval the
\* reclaimer falls back to.  NoTime is the modification time of a directory
\* that does not exist.
Day == 1440
DefaultIntervalMins == 30
NoTime == -1

\* Values of the jobMemoryEstimateMB configuration key.
EstimateMBValues == {256}

VARIABLES
  \* configuration (Config)
  EnableResourceGating, CgroupV2Root, JobMemoryEstimateMB,
  \* Server fields
  mu, memBudgetBytes, memReservedBytes,
  \* file system: existing job/artifact directories and the files in them
  jobDirs, jobFiles, artDirs, artFiles,
  \* per-request control state and locals
  pc, req, ctxDone, tickerC, max, cur, id, deferRelease, cmdErr,
  \* per-request observations
  status, acquireResult, releases, held, spawned, madeJobDir, madeArtDir,
  cancelledWaiting, lastAttempt,
  \* the message of the validation error written to a request, if any
  errText,
  \* admission controller called on drawn inputs: the last call
  memOp,
  \* argument filter: defaults, input vector, loop index, output, argv
  DefaultArgs, user, argI, result, argv,
  \* argument vectors as Go slices: the backing arrays, the slice of the
  \* defaults, and the filter run of every request
  slices,
  \* reclaimer: configuration, clock, directory times, stray file, loop state
  ArtifactTTLDays, CleanupIntervalMins, now, artMtime, artStray, gcPc, gcTodo,
  gcDeleted, gcScans,
  \* whether a listing, Stat or removal of the current scan has failed
  gcErr

cfgVars == <<EnableResourceGating, CgroupV2Root, JobMemoryEstimateMB>>
srvVars == <<mu, memBudgetBytes, memReservedBytes>>
fsVars == <<jobDirs, jobFiles, artDirs, artFiles, artMtime>>
locVars == <<req, ctxDone, tickerC, max, cur, id, deferRelease, cmdErr>>
obsVars == <<status, acquireResult, releases, held, spawned, madeJobDir, madeArtDir,
             cancelledWaiting, lastAttempt, errText>>
argVars == <<DefaultArgs, user, argI, result, argv, slices>>
gcVars == <<ArtifactTTLDays, CleanupIntervalMins, now, artStray, gcPc, gcTodo,
            gcDeleted, gcScans, gcErr>>
\* the variables the request handler does not touch
auxVars == <<memOp, argVars, gcVars>>
reqVars == <<pc, locVars, obsVars>>
vars == <<cfgVars, srvVars, fsVars, reqVars, auxVars>>

(***************************************************************************)
(* Pure helpers of the admission controller.                               *)
(***************************************************************************)

\* est := s.cfg.JobMemoryEstimateMB * 1024 * 1024; if est <= 0 { est = 256 MiB }
Estimate(mb) == IF mb * MiB <= 0 THEN DefaultEstimateBytes ELSE mb * MiB

\* readCgroupMemoryMax: (value, err)
readCgroupMemoryMax(root, file) ==
  IF root = "" THEN [v |-> 0, err |-> TRUE]
  ELSE IF file.kind = "err" THEN [v |-> 0, err |-> TRUE]
  ELSE IF file.kind = "max" THEN [v |-> 0, err |-> FALSE]
  ELSE [v |-> file.val, err |-> FALSE]

\* readCgroupMemoryCurrent: (value, err)
readCgroupMemoryCurrent(file) ==
  IF file.kind = "num" THEN [v |-> file.val, err |-> FALSE]
  ELSE [v |-> 0, err |-> TRUE]

\* as CanReserve, but the estimate of the request itself is not counted
CanReserve_IgnoreEstimate(c, reserved, estimateBytes, m) == c + reserved <= m

\* as CanReserve, but the reservations of the other requests are forgotten
CanReserve_IgnoreReserved(c, reserved, estimateBytes, m) == c + estimateBytes <= m

\* the reservation test of acquireMemory
CanReserve(c, reserved, estimateBytes, m) == c + reserved + estimateBytes <= m

\* as releaseMemory, but the estimate is subtracted twice
releaseMemory_Twice(reserved, estimateBytes) ==
  IF 2 * estimateBytes > reserved THEN 0 ELSE reserved - 2 * estimateBytes

\* as releaseMemory, but the counter is left as it is
releaseMemory_NoOp(reserved, estimateBytes) == reserved

\* as releaseMemory, but without the clamp at 0
releaseMemory_NoClamp(reserved, estimateBytes) == reserved - estimateBytes

\* the new value of memReservedBytes after releaseMemory(estimateBytes)
releaseMemory(reserved, estimateBytes) ==
  IF estimateBytes > reserved THEN 0 ELSE reserved - estimateBytes

est == Estimate(JobMemoryEstimateMB)

InFlight(r) == pc[r] \notin {"idle", "done"}

\* Request inputs: method, whether the body decodes, whether code is
\* blank after trimming, whether the type is in the accepted set.
Requests ==
  [method : {"POST", "GET"}, jsonOK : BOOLEAN, codeBlank : BOOLEAN, typeOK : BOOLEAN]

NoReq == [method |-> "POST", jsonOK |-> TRUE, codeBlank |-> FALSE, typeOK |-> TRUE]

(***************************************************************************)
(* Initial state: the server has been constructed and started (Start has   *)
(* run ensureDirs, so the onceMkDir of the handler is already done and     *)
(* ensureDirs returns nil in every request); no request has arrived.       *)
(***************************************************************************)
\* no request has arrived
ReqInit ==
  /\ pc = [r \in Reqs |-> "idle"]
  /\ req = [r \in Reqs |-> NoReq]
  /\ ctxDone = [r \in Reqs |-> FALSE]
  /\ tickerC = [r \in Reqs |-> FALSE]
  /\ max = [r \in Reqs |-> 0]
  /\ cur = [r \in Reqs |-> 0]
  /\ id = [r \in Reqs |-> NoID]
  /\ deferRelease = [r \in Reqs |-> FALSE]
  /\ cmdErr = [r \in Reqs |-> "none"]
  /\ status = [r \in Reqs |-> 0]
  /\ acquireResult = [r \in Reqs |-> "none"]
  /\ releases = [r \in Reqs |-> 0]
  /\ held = [r \in Reqs |-> 0]
  /\ spawned = [r \in Reqs |-> FALSE]
  /\ madeJobDir = [r \in Reqs |-> NoID]
  /\ madeArtDir = [r \in Reqs |-> NoID]
  /\ cancelledWaiting = [r \in Reqs |-> FALSE]
  /\ lastAttempt = [r \in Reqs |-> "none"]
  /\ errText = [r \in Reqs |-> ""]

\* the work directories are empty
FsInit ==
  /\ jobDirs = {}
  /\ jobFiles = [i \in IDs |-> {}]
  /\ artDirs = {}
  /\ artFiles = [i \in IDs |-> {}]
  /\ artMtime = [i \in IDs |-> NoTime]

\* NewServer: the counters are zero and the mutex is free
SrvInit ==
  /\ mu = NoOwner
  /\ memBudgetBytes = 0
  /\ memReservedBytes = 0

\* the admission controller has not been called on drawn inputs
MemIdle == memOp = [op |-> "none", n |-> 0, before |-> 0]

\* the nil slice
NoSlice == [arr |-> 0, len |-> 0]

\* no backing array is allocated, no request filters
NoSlices ==
  [heap |-> <<>>, def |-> NoSlice,
   user |-> [r \in Reqs |-> <<>>], i |-> [r \in Reqs |-> 0],
   res |-> [r \in Reqs |-> NoSlice], argv |-> [r \in Reqs |-> <<>>],
   at |-> [r \in Reqs |-> "idle"]]

\* no argument vector is being filtered
ArgsIdle ==
  /\ DefaultArgs = <<>>
  /\ user = <<>>
  /\ argI = 0
  /\ result = <<>>
  /\ argv = <<>>
  /\ slices = NoSlices

\* the reclaimer is not observed: default TTL and interval, a fixed clock
GcIdle ==
  /\ ArtifactTTLDays = 3
  /\ CleanupIntervalMins = DefaultIntervalMins
  /\ now = 0
  /\ artStray = FALSE
  /\ gcPc = "off"
  /\ gcTodo = {}
  /\ gcDeleted = {}
  /\ gcScans = 0
  /\ gcErr = FALSE

Init ==
  /\ EnableResourceGating \in BOOLEAN
  /\ CgroupV2Root \in IF EnableResourceGating THEN {"", "cgroup"} ELSE {"cgroup"}
  /\ JobMemoryEstimateMB \in EstimateMBValues
  /\ SrvInit
  /\ FsInit
  /\ ReqInit
  /\ MemIdle
  /\ ArgsIdle
  /\ GcIdle

\* The handler writes its response with status st and returns; the deferred
\* calls run afterwards (DeferredRelease, Return).
Respond(r, st) ==
  /\ status' = [status EXCEPT ![r] = st]
  /\ pc' = [pc EXCEPT ![r] = "ret"]

Goto(r, l) == pc' = [pc EXCEPT ![r] = l]

(***************************************************************************)
(* HandleCompile: request arrival and validation.                          *)
(***************************************************************************)

\* A request arrives; the slots are interchangeable, so they are taken in
\* order.
Receive(r) ==
  /\ pc[r] = "idle"
  /\ \A o \in Reqs : o < r => pc[o] # "idle"
  /\ \E q \in Requests : req' = [req EXCEPT ![r] = q]
  /\ Goto(r, "received")
  /\ UNCHANGED <<auxVars, cfgVars, srvVars, fsVars, ctxDone, tickerC, max, cur, id,
                 deferRelease, cmdErr, obsVars>>

\* http.Error(w, text, st); return
Reject(r, st, text) ==
  /\ Respond(r, st)
  /\ errText' = [errText EXCEPT ![r] = text]

\* as Validate, but the type is checked before the code
Validate_TypeBeforeCode(r) ==
  /\ pc[r] = "received"
  /\ IF req[r].method # "POST" THEN Reject(r, 405, "method not allowed")
     ELSE IF ~req[r].jsonOK THEN Reject(r, 400, "invalid JSON")
     ELSE IF ~req[r].typeOK THEN Reject(r, 400, "type must be 'c' or 'cpp'")
     ELSE IF req[r].codeBlank THEN Reject(r, 400, "code is required")
     ELSE /\ IF EnableResourceGating THEN Goto(r, "ens_lock") ELSE Goto(r, "mkjob")
          /\ UNCHANGED <<status, errText>>
  /\ req' = [req EXCEPT ![r] = NoReq]
  /\ UNCHANGED <<auxVars, cfgVars, srvVars, fsVars, ctxDone, tickerC, max, cur, id,
                 deferRelease, cmdErr, acquireResult, releases, held, spawned,
                 madeJobDir, madeArtDir, cancelledWaiting, lastAttempt>>

\* method, ensureDirs, JSON, code, type; then the gating switch
Validate(r) ==
  /\ pc[r] = "received"
  /\ IF req[r].method # "POST" THEN Reject(r, 405, "method not allowed")
     ELSE IF ~req[r].jsonOK THEN Reject(r, 400, "invalid JSON")
     ELSE IF req[r].codeBlank THEN Reject(r, 400, "code is required")
     ELSE IF ~req[r].typeOK THEN Reject(r, 400, "type must be 'c' or 'cpp'")
     ELSE /\ IF EnableResourceGating THEN Goto(r, "ens_lock") ELSE Goto(r, "mkjob")
          /\ UNCHANGED <<status, errText>>
  /\ req' = [req EXCEPT ![r] = NoReq]
  /\ UNCHANGED <<auxVars, cfgVars, srvVars, fsVars, ctxDone, tickerC, max, cur, id,
                 deferRelease, cmdErr, acquireResult, releases, held, spawned,
                 madeJobDir, madeArtDir, cancelledWaiting, lastAttempt>>

(***************************************************************************)
(* ensureMemBudget: the whole body runs with s.mu held.                    *)
(***************************************************************************)
EnsureLock(r) ==
  /\ pc[r] = "ens_lock"
  /\ mu = NoOwner
  /\ mu' = r
  /\ Goto(r, "ens_check")
  /\ UNCHANGED <<auxVars, cfgVars, memBudgetBytes, memReservedBytes, fsVars, locVars, obsVars>>

EnsureCheck(r) ==
  /\ pc[r] = "ens_check"
  /\ IF memBudgetBytes > 0
       THEN /\ mu' = NoOwner
            /\ Goto(r, "acq_top")
       ELSE /\ mu' = mu
            /\ Goto(r, "ens_read")
  /\ UNCHANGED <<auxVars, cfgVars, memBudgetBytes, memReservedBytes, fsVars, locVars, obsVars>>

EnsureRead(r) ==
  /\ pc[r] = "ens_read"
  /\ \E file \in MaxFileValues :
       LET m == readCgroupMemoryMax(CgroupV2Root, file) IN
         IF m.err
           THEN /\ Respond(r, 500)
                /\ UNCHANGED memBudgetBytes
           ELSE /\ memBudgetBytes' = IF m.v <= 0 THEN 0 ELSE m.v
                /\ Goto(r, "acq_top")
                /\ UNCHANGED status
  /\ mu' = NoOwner
  /\ UNCHANGED <<auxVars, cfgVars, memReservedBytes, fsVars, locVars, acquireResult, releases,
                 held, spawned, madeJobDir, madeArtDir, errText, cancelledWaiting, lastAttempt>>

(***************************************************************************)
(* acquireMemory: the polling loop.  Each short critical section (lock,    *)
(* O(1) body, unlock) is one step that needs the mutex to be free.         *)
(***************************************************************************)

\* s.mu.Lock(); max := s.memBudgetBytes; s.mu.Unlock(); if max == 0 {...}
AcquireReadBudget(r) ==
  /\ pc[r] = "acq_top"
  /\ mu = NoOwner
  /\ max' = [max EXCEPT ![r] = memBudgetBytes]
  /\ IF memBudgetBytes = 0 THEN Goto(r, "acq_unlim") ELSE Goto(r, "acq_probe")
  /\ UNCHANGED <<auxVars, cfgVars, srvVars, fsVars, req, ctxDone, tickerC, cur, id,
                 deferRelease, cmdErr, obsVars>>

\* acquireMemory leaves: its ticker is stopped and its locals are gone
LeaveAcquire(r) ==
  /\ tickerC' = [tickerC EXCEPT ![r] = FALSE]
  /\ max' = [max EXCEPT ![r] = 0]
  /\ cur' = [cur EXCEPT ![r] = 0]

\* as Admit, but the handler does not register the deferred release
Admit_NoDefer(r, how) ==
  /\ lastAttempt' = [lastAttempt EXCEPT ![r] = how]
  /\ memReservedBytes' = memReservedBytes + est
  /\ held' = [held EXCEPT ![r] = held[r] + est]
  /\ acquireResult' = [acquireResult EXCEPT ![r] = "ok"]
  /\ UNCHANGED deferRelease
  /\ LeaveAcquire(r)
  /\ Goto(r, "mkjob")

\* memReservedBytes += estimateBytes; return nil; the handler registers
\* defer s.releaseMemory(est)
Admit(r, how) ==
  /\ lastAttempt' = [lastAttempt EXCEPT ![r] = how]
  /\ memReservedBytes' = memReservedBytes + est
  /\ held' = [held EXCEPT ![r] = held[r] + est]
  /\ acquireResult' = [acquireResult EXCEPT ![r] = "ok"]
  /\ deferRelease' = [deferRelease EXCEPT ![r] = TRUE]
  /\ LeaveAcquire(r)
  /\ Goto(r, "mkjob")

\* unlimited or not configured: reserve without a capacity test
AcquireUnlimited(r) ==
  /\ pc[r] = "acq_unlim"
  /\ mu = NoOwner
  /\ Admit(r, "unlimited")
  /\ UNCHANGED <<auxVars, cfgVars, mu, memBudgetBytes, fsVars, req, ctxDone, id, cmdErr,
                 status, releases, spawned, madeJobDir, madeArtDir, errText,
                 cancelledWaiting>>

\* as AcquireProbe, but a failed read is taken for a usage of 0 and the
\* reservation test goes ahead
AcquireProbe_FailOpen(r) ==
  /\ pc[r] = "acq_probe"
  /\ \E file \in CurFileValues :
       LET c == readCgroupMemoryCurrent(file) IN
         /\ cur' = [cur EXCEPT ![r] = c.v]
         /\ Goto(r, "acq_check")
         /\ lastAttempt' = [lastAttempt EXCEPT ![r] =
                              IF c.err THEN "probe_err" ELSE "probe_ok"]
  /\ UNCHANGED <<auxVars, cfgVars, srvVars, fsVars, req, ctxDone, tickerC, max, id,
                 deferRelease, cmdErr, status, acquireResult, releases, held,
                 spawned, madeJobDir, madeArtDir, errText, cancelledWaiting>>

\* cur, err := readCgroupMemoryCurrent(root), outside the lock
AcquireProbe(r) ==
  /\ pc[r] = "acq_probe"
  /\ \E file \in CurFileValues :
       LET c == readCgroupMemoryCurrent(file) IN
         IF c.err
           THEN /\ Goto(r, "acq_wait")
                /\ lastAttempt' = [lastAttempt EXCEPT ![r] = "probe_err"]
                /\ UNCHANGED cur
           ELSE /\ cur' = [cur EXCEPT ![r] = c.v]
                /\ Goto(r, "acq_check")
                /\ lastAttempt' = [lastAttempt EXCEPT ![r] = "probe_ok"]
  /\ UNCHANGED <<auxVars, cfgVars, srvVars, fsVars, req, ctxDone, tickerC, max, id,
                 deferRelease, cmdErr, status, acquireResult, releases, held,
                 spawned, madeJobDir, madeArtDir, errText, cancelledWaiting>>

\* Attempt reservation atomically
AcquireCheck(r) ==
  /\ pc[r] = "acq_check"
  /\ mu = NoOwner
  /\ IF CanReserve(cur[r], memReservedBytes, est, max[r])
       THEN Admit(r, "granted")
       ELSE /\ Goto(r, "acq_wait")
            /\ lastAttempt' = [lastAttempt EXCEPT ![r] = "refused"]
            /\ cur' = [cur EXCEPT ![r] = 0]
            /\ UNCHANGED <<memReservedBytes, held, acquireResult, deferRelease,
                           tickerC, max>>
  /\ UNCHANGED <<auxVars, cfgVars, mu, memBudgetBytes, fsVars, req, ctxDone, id, cmdErr,
                 status, releases, spawned, madeJobDir, madeArtDir, errText,
                 cancelledWaiting>>

\* as AcquireSelectDone, but the handler goes on after answering 408
AcquireSelectDone_NoReturn(r) ==
  /\ pc[r] = "acq_wait"
  /\ ctxDone[r]
  /\ acquireResult' = [acquireResult EXCEPT ![r] = "cancelled"]
  /\ LeaveAcquire(r)
  /\ status' = [status EXCEPT ![r] = 408]
  /\ Goto(r, "mkjob")
  /\ UNCHANGED <<auxVars, cfgVars, srvVars, fsVars, req, ctxDone, id, deferRelease, cmdErr,
                 releases, held, spawned, madeJobDir, madeArtDir, errText,
                 cancelledWaiting, lastAttempt>>

\* select: case <-ctx.Done(): return ctx.Err(); the handler answers 408
AcquireSelectDone(r) ==
  /\ pc[r] = "acq_wait"
  /\ ctxDone[r]
  /\ acquireResult' = [acquireResult EXCEPT ![r] = "cancelled"]
  /\ LeaveAcquire(r)
  /\ Respond(r, 408)
  /\ UNCHANGED <<auxVars, cfgVars, srvVars, fsVars, req, ctxDone, id, deferRelease, cmdErr,
                 releases, held, spawned, madeJobDir, madeArtDir, errText,
                 cancelledWaiting, lastAttempt>>

\* select: case <-ticker.C: next iteration
AcquireSelectTick(r) ==
  /\ pc[r] = "acq_wait"
  /\ tickerC[r]
  /\ tickerC' = [tickerC EXCEPT ![r] = FALSE]
  /\ Goto(r, "acq_top")
  /\ UNCHANGED <<auxVars, cfgVars, srvVars, fsVars, req, ctxDone, max, cur, id,
                 deferRelease, cmdErr, obsVars>>

InAcquire(r) ==
  pc[r] \in {"acq_top", "acq_unlim", "acq_probe", "acq_check", "acq_wait"}

\* The 200 ms ticker of acquireMemory delivers a tick into its channel
\* (capacity 1; a tick is dropped while one is pending).  The channel is
\* read only by the select, so an earlier tick shows as one that is pending
\* when the handler has reached the select.
TickerFire(r) ==
  /\ pc[r] = "acq_wait"
  /\ ~tickerC[r]
  /\ tickerC' = [tickerC EXCEPT ![r] = TRUE]
  /\ UNCHANGED <<auxVars, cfgVars, srvVars, fsVars, pc, req, ctxDone, max, cur, id,
                 deferRelease, cmdErr, obsVars>>

\* The client disconnects: r.Context() is cancelled.  The context is read
\* only by the select of acquireMemory, so an earlier disconnect shows as one
\* that happens when the handler has reached the select; a later one is
\* taken while the handler waits for the compiler.
ClientDisconnect(r) ==
  /\ pc[r] \in {"acq_wait", "compiling"}
  /\ ~ctxDone[r]
  /\ ctxDone' = [ctxDone EXCEPT ![r] = TRUE]
  /\ cancelledWaiting' = [cancelledWaiting EXCEPT ![r] = (pc[r] = "acq_wait")]
  /\ UNCHANGED <<auxVars, cfgVars, srvVars, fsVars, pc, req, tickerC, max, cur, id,
                 deferRelease, cmdErr, status, acquireResult, releases, held,
                 spawned, madeJobDir, madeArtDir, errText, lastAttempt>>

(***************************************************************************)
(* HandleCompile: workspace, compiler run, promotion.                      *)
(***************************************************************************)

\* The ids randomID can return: any id already in use (a collision) or a
\* fresh one; fresh ids are interchangeable, so the least one stands for all.
UsedIDs == {id[r] : r \in Reqs} \cup jobDirs \cup artDirs
FreshIDs == IDs \ UsedIDs
DrawnIDs ==
  (IDs \cap UsedIDs) \cup {i \in FreshIDs : \A j \in FreshIDs : i <= j}

\* id, _ := randomID(4); os.MkdirAll(jobDir): failure answers 500
MkdirJob(r) ==
  /\ pc[r] = "mkjob"
  /\ \E i \in DrawnIDs, ok \in BOOLEAN :
       /\ id' = [id EXCEPT ![r] = i]
       /\ IF ok
            THEN /\ jobDirs' = jobDirs \cup {i}
                 /\ madeJobDir' = [madeJobDir EXCEPT ![r] = i]
                 /\ Goto(r, "mkart")
                 /\ UNCHANGED status
            ELSE /\ Respond(r, 500)
                 /\ UNCHANGED <<jobDirs, madeJobDir>>
  /\ cancelledWaiting' = [cancelledWaiting EXCEPT ![r] = FALSE]
  /\ lastAttempt' = [lastAttempt EXCEPT ![r] = "none"]
  /\ UNCHANGED <<auxVars, cfgVars, srvVars, jobFiles, artDirs, artFiles, artMtime, req, ctxDone,
                 tickerC, max, cur, deferRelease, cmdErr, acquireResult, releases,
                 held, spawned, madeArtDir, errText>>

\* os.MkdirAll(artDir): failure answers 500
MkdirArt(r) ==
  /\ pc[r] = "mkart"
  /\ \E ok \in BOOLEAN :
       IF ok
         THEN /\ artDirs' = artDirs \cup {id[r]}
              /\ artMtime' = IF id[r] \in artDirs THEN artMtime
                              ELSE [artMtime EXCEPT ![id[r]] = now]
              /\ madeArtDir' = [madeArtDir EXCEPT ![r] = id[r]]
              /\ Goto(r, "write")
              /\ UNCHANGED status
         ELSE /\ Respond(r, 500)
              /\ UNCHANGED <<artDirs, artMtime, madeArtDir>>
  /\ UNCHANGED <<auxVars, cfgVars, srvVars, jobDirs, jobFiles, artFiles, locVars,
                 acquireResult, releases, held, spawned, madeJobDir,
                 cancelledWaiting, lastAttempt, errText>>

\* os.WriteFile(srcPath, code): failure answers 500.  Then the argv is built
\* and the compiler is started under a 5-minute deadline derived from
\* context.Background(), not from the request context.
WriteSource(r) ==
  /\ pc[r] = "write"
  /\ \E ok \in BOOLEAN :
       IF ok /\ id[r] \in jobDirs
         THEN /\ jobFiles' = [jobFiles EXCEPT ![id[r]] = @ \cup {"src"}]
              /\ spawned' = [spawned EXCEPT ![r] = TRUE]
              /\ Goto(r, "compiling")
              /\ UNCHANGED status
         ELSE /\ Respond(r, 500)
              /\ UNCHANGED <<jobFiles, spawned>>
  /\ UNCHANGED <<auxVars, cfgVars, srvVars, jobDirs, artDirs, artFiles, artMtime, locVars,
                 acquireResult, releases, held, madeJobDir, madeArtDir, errText,
                 cancelledWaiting, lastAttempt>>

\* the outputs a successful compiler run leaves in the job directory
\* (Emscripten places the .wasm next to the .js)
CompilerOutputs == {"app.js", "app.wasm"}

\* as CompileReturn, but a compile killed by the deadline is taken for a
\* success
CompileReturn_DeadlineSucceeds(r) ==
  /\ pc[r] = "compiling"
  /\ \E e \in {"exit0", "nonzero", "deadline"} :
       /\ e # "nonzero" => (id[r] \in jobDirs /\ "src" \in jobFiles[id[r]])
       /\ cmdErr' = [cmdErr EXCEPT ![r] = e]
       /\ IF e # "nonzero"
            THEN /\ jobFiles' = [jobFiles EXCEPT ![id[r]] = @ \cup CompilerOutputs]
                 /\ Goto(r, "rename_js")
                 /\ UNCHANGED status
            ELSE /\ Respond(r, 400)
                 /\ UNCHANGED jobFiles
  /\ UNCHANGED <<auxVars, cfgVars, srvVars, jobDirs, artDirs, artFiles, artMtime, req, ctxDone,
                 tickerC, max, cur, id, deferRelease, acquireResult, releases, held,
                 spawned, madeJobDir, madeArtDir, errText, cancelledWaiting, lastAttempt>>

\* as CompileReturn, but a failed compile removes the artifact directory
CompileReturn_RemovesArtDir(r) ==
  /\ pc[r] = "compiling"
  /\ \E e \in {"exit0", "nonzero", "deadline"} :
       /\ e = "exit0" => (id[r] \in jobDirs /\ "src" \in jobFiles[id[r]])
       /\ cmdErr' = [cmdErr EXCEPT ![r] = e]
       /\ IF e = "exit0"
            THEN /\ jobFiles' = [jobFiles EXCEPT ![id[r]] = @ \cup CompilerOutputs]
                 /\ Goto(r, "rename_js")
                 /\ UNCHANGED <<status, artDirs>>
            ELSE /\ Respond(r, 400)
                 /\ artDirs' = artDirs \ {id[r]}
                 /\ UNCHANGED jobFiles
  /\ UNCHANGED <<auxVars, cfgVars, srvVars, jobDirs, artFiles, artMtime, req, ctxDone,
                 tickerC, max, cur, id, deferRelease, acquireResult, releases, held,
                 spawned, madeJobDir, madeArtDir, errText, cancelledWaiting, lastAttempt>>

\* cmd.CombinedOutput() returns: exit 0, non-zero exit, or killed by the
\* deadline; err != nil answers 400 with the captured output
CompileReturn(r) ==
  /\ pc[r] = "compiling"
  /\ \E e \in {"exit0", "nonzero", "deadline"} :
       /\ e = "exit0" => (id[r] \in jobDirs /\ "src" \in jobFiles[id[r]])
       /\ cmdErr' = [cmdErr EXCEPT ![r] = e]
       /\ IF e = "exit0"
            THEN /\ jobFiles' = [jobFiles EXCEPT ![id[r]] = @ \cup CompilerOutputs]
                 /\ Goto(r, "rename_js")
                 /\ UNCHANGED status
            ELSE /\ Respond(r, 400)
                 /\ UNCHANGED jobFiles
  /\ UNCHANGED <<auxVars, cfgVars, srvVars, jobDirs, artDirs, artFiles, artMtime, req, ctxDone,
                 tickerC, max, cur, id, deferRelease, acquireResult, releases, held,
                 spawned, madeJobDir, madeArtDir, errText, cancelledWaiting, lastAttempt>>

\* _ = os.Rename(jobDir/f, artDir/f): best effort, the error is dropped; a
\* new entry sets the modification time of the artifact directory
Rename(r, f, ok) ==
  IF ok /\ id[r] \in jobDirs /\ f \in jobFiles[id[r]] /\ id[r] \in artDirs
    THEN /\ jobFiles' = [jobFiles EXCEPT ![id[r]] = @ \ {f}]
         /\ artFiles' = [artFiles EXCEPT ![id[r]] = @ \cup {f}]
         /\ artMtime' = [artMtime EXCEPT ![id[r]] = now]
    ELSE UNCHANGED <<jobFiles, artFiles, artMtime>>

\* as RenameJS, but the handler answers right after the first rename
RenameJS_ThenRespond(r) ==
  /\ pc[r] = "rename_js"
  /\ \E ok \in BOOLEAN : Rename(r, "app.js", ok)
  /\ Goto(r, "respond_ok")
  /\ UNCHANGED <<auxVars, cfgVars, srvVars, jobDirs, artDirs, locVars, obsVars>>

RenameJS(r) ==
  /\ pc[r] = "rename_js"
  /\ \E ok \in BOOLEAN : Rename(r, "app.js", ok)
  /\ Goto(r, "rename_wasm")
  /\ UNCHANGED <<auxVars, cfgVars, srvVars, jobDirs, artDirs, locVars, obsVars>>

RenameWasm(r) ==
  /\ pc[r] = "rename_wasm"
  /\ \E ok \in BOOLEAN : Rename(r, "app.wasm", ok)
  /\ Goto(r, "rm_job")
  /\ UNCHANGED <<auxVars, cfgVars, srvVars, jobDirs, artDirs, locVars, obsVars>>

\* _ = os.RemoveAll(jobDir): the removal of the handler's own directory is
\* taken to succeed
RemoveJobDir(r) ==
  /\ pc[r] = "rm_job"
  /\ jobDirs' = jobDirs \ {id[r]}
  /\ jobFiles' = [jobFiles EXCEPT ![id[r]] = {}]
  /\ Goto(r, "respond_ok")
  /\ UNCHANGED <<auxVars, cfgVars, srvVars, artDirs, artFiles, artMtime, locVars, obsVars>>

\* the success JSON is encoded into the response
RespondOK(r) ==
  /\ pc[r] = "respond_ok"
  /\ Respond(r, 200)
  /\ UNCHANGED <<auxVars, cfgVars, srvVars, fsVars, locVars, acquireResult, releases,
                 held, spawned, madeJobDir, madeArtDir, errText, cancelledWaiting, lastAttempt>>

(***************************************************************************)
(* Return of the handler: the deferred releaseMemory(est), if registered.  *)
(* net/http cancels the request context when the handler has returned.     *)
(***************************************************************************)
\* the handler has returned: its locals are gone and its context is done
Returned(r) ==
  /\ ctxDone' = [ctxDone EXCEPT ![r] = TRUE]
  /\ id' = [id EXCEPT ![r] = NoID]
  /\ cmdErr' = [cmdErr EXCEPT ![r] = "none"]
  /\ Goto(r, "done")

DeferredRelease(r) ==
  /\ pc[r] = "ret"
  /\ deferRelease[r]
  /\ mu = NoOwner
  /\ memReservedBytes' = releaseMemory(memReservedBytes, est)
  /\ held' = [held EXCEPT ![r] = held[r] - (memReservedBytes - memReservedBytes')]
  /\ releases' = [releases EXCEPT ![r] = releases[r] + 1]
  /\ deferRelease' = [deferRelease EXCEPT ![r] = FALSE]
  /\ Returned(r)
  /\ UNCHANGED <<auxVars, cfgVars, mu, memBudgetBytes, fsVars, req, tickerC, max, cur,
                 status, acquireResult, spawned, madeJobDir, madeArtDir, errText,
                 cancelledWaiting, lastAttempt>>

Return(r) ==
  /\ pc[r] = "ret"
  /\ ~deferRelease[r]
  /\ Returned(r)
  /\ UNCHANGED <<auxVars, cfgVars, srvVars, fsVars, req, tickerC, max, cur, deferRelease,
                 obsVars>>

Next ==
  \/ \E r \in Reqs : Receive(r)
  \/ \E r \in Reqs : Validate(r)
  \/ \E r \in Reqs : EnsureLock(r)
  \/ \E r \in Reqs : EnsureCheck(r)
  \/ \E r \in Reqs : EnsureRead(r)
  \/ \E r \in Reqs : AcquireReadBudget(r)
  \/ \E r \in Reqs : AcquireUnlimited(r)
  \/ \E r \in Reqs : AcquireProbe(r)
  \/ \E r \in Reqs : AcquireCheck(r)
  \/ \E r \in Reqs : AcquireSelectDone(r)
  \/ \E r \in Reqs : AcquireSelectTick(r)
  \/ \E r \in Reqs : TickerFire(r)
  \/ \E r \in Reqs : ClientDisconnect(r)
  \/ \E r \in Reqs : MkdirJob(r)
  \/ \E r \in Reqs : MkdirArt(r)
  \/ \E r \in Reqs : WriteSource(r)
  \/ \E r \in Reqs : CompileReturn(r)
  \/ \E r \in Reqs : RenameJS(r)
  \/ \E r \in Reqs : RenameWasm(r)
  \/ \E r \in Reqs : RemoveJobDir(r)
  \/ \E r \in Reqs : RespondOK(r)
  \/ \E r \in Reqs : DeferredRelease(r)
  \/ \E r \in Reqs : Return(r)

Spec == Init /\ [][Next]_vars

\* Scheduling: a handler that holds the mutex or has started its compiler
\* goes on running (the compiler exits or the 5-minute deadline kills it and
\* the wait returns), and a handler that wants the mutex for its deferred
\* release gets it.
HandlerFairness ==
  \A r \in Reqs :
    /\ WF_vars(EnsureCheck(r))
    /\ WF_vars(EnsureRead(r))
    /\ WF_vars(CompileReturn(r))
    /\ WF_vars(RenameJS(r))
    /\ WF_vars(RenameWasm(r))
    /\ WF_vars(RemoveJobDir(r))
    /\ WF_vars(RespondOK(r))
    /\ SF_vars(DeferredRelease(r))
    /\ WF_vars(Return(r))

SpecLive == Spec /\ HandlerFairness

(***************************************************************************)
(* Idle states of the request handler, used by the specifications that    *)
(* exercise one component alone.                                           *)
(***************************************************************************)
\* DefaultConfig: gating is off, the estimate is 256 MiB
CfgDefault ==
  /\ EnableResourceGating = FALSE
  /\ CgroupV2Root = "cgroup"
  /\ JobMemoryEstimateMB = 256

handlerVars == <<cfgVars, mu, memBudgetBytes, jobDirs, jobFiles, reqVars>>

(***************************************************************************)
(* The argument filter (args.go) and the argv the handler builds from it.  *)
(* Tokens are strings; strings.TrimSpace, HasPrefix and Contains are       *)
(* computed character by character.                                        *)
(***************************************************************************)
MaxArgs == 3

\* tokens a client may send in "args"
ArgTokens ==
  { "-O2", "-o", " -o ", "-o=x", "evil", "", "data", "/abs", "a/../b",
    "-g/../x", "--preload-file", " --embed-file", "--source-map-base",
    "-sENVIRONMENT=node", "-sENVIRONMENT=node,web", "-sFORCE_FILESYSTEM=1",
    "--shell-file" }

\* a longer vector mixing accepted, blocked and unknown tokens and an
\* unsafe pair
ExampleArgs ==
  << "-O2", "-o", "evil", "-sFORCE_FILESYSTEM=1",
     "-sEXPORTED_FUNCTIONS=[_main]", "--preload-file", "../etc/passwd" >>

UserVectors ==
  UNION { [1..n -> ArgTokens] : n \in 0..MaxArgs } \cup {ExampleArgs}

\* DefaultConfig().DefaultArgs, or a configuration file with no defaults
DefaultArgsValues ==
  { <<>>,
    << "-sINVOKE_RUN=0", "-sENVIRONMENT=web", "-sALLOW_MEMORY_GROWTH=1",
       "-sMODULARIZE=1" >> }

IsSpace(c) == c \in {" ", "\t", "\n", "\r"}

RECURSIVE TrimLeft(_)
TrimLeft(s) ==
  IF Len(s) > 0 /\ IsSpace(SubSeq(s, 1, 1))
    THEN TrimLeft(SubSeq(s, 2, Len(s)))
    ELSE s

RECURSIVE TrimRight(_)
TrimRight(s) ==
  IF Len(s) > 0 /\ IsSpace(SubSeq(s, Len(s), Len(s)))
    THEN TrimRight(SubSeq(s, 1, Len(s) - 1))
    ELSE s

\* strings.TrimSpace
TrimSpace(s) == TrimRight(TrimLeft(s))

\* strings.HasPrefix
HasPrefix(s, p) == Len(s) >= Len(p) /\ SubSeq(s, 1, Len(p)) = p

\* strings.Contains
Contains(s, sub) ==
  \E k \in 1..(Len(s) - Len(sub) + 1) : SubSeq(s, k, k + Len(sub) - 1) = sub

allowedPrefix ==
  { "-O0", "-O1", "-O2", "-O3", "-Os", "-Oz", "-g", "-g4", "-sMODULARIZE=",
    "-sENVIRONMENT=", "-sINVOKE_RUN=", "-sEXPORTED_FUNCTIONS=",
    "-sEXPORTED_RUNTIME_METHODS=", "-sALLOW_MEMORY_GROWTH=",
    "--preload-file", "--embed-file", "--source-map-base" }

blocked == { "-o", "--shell-file", "-sFORCE_FILESYSTEM", "-sENVIRONMENT=node" }

\* the flags whose operand is the next token
PairFlags == { "--preload-file", "--embed-file", "--source-map-base" }

isBlockedArg(a) == \E b \in blocked : a = b \/ HasPrefix(a, b \o "=")

\* as isAllowedArg, but every token is allowed
isAllowedArg_Any(a) == TRUE

isAllowedArg(a) == \E p \in allowedPrefix : HasPrefix(a, p) \/ a = p

\* as safeArgPath, but every operand is taken for safe
safeArgPath_Always(p) == TRUE

safeArgPath(p) == ~HasPrefix(p, "/") /\ ~Contains(p, "..")

\* a request carries the vector `user`; nothing has been filtered yet
InitArgs ==
  /\ CfgDefault
  /\ SrvInit
  /\ FsInit
  /\ ReqInit
  /\ MemIdle
  /\ GcIdle
  /\ DefaultArgs \in DefaultArgsValues
  /\ user \in UserVectors
  /\ argI = 0
  /\ result = <<>>
  /\ argv = <<>>
  /\ slices = NoSlices

\* as MergeAndFilterArgsEnter, but result starts empty
MergeAndFilterArgsEnter_NoDefaults ==
  /\ argI = 0
  /\ result' = <<>>
  /\ argI' = 1
  /\ UNCHANGED <<DefaultArgs, user, argv, slices, handlerVars, memReservedBytes,
                 artDirs, artFiles, artMtime, memOp, gcVars>>

\* result := append([]string{}, s.cfg.DefaultArgs...); i := 0 (index 1 here)
MergeAndFilterArgsEnter ==
  /\ argI = 0
  /\ result' = DefaultArgs
  /\ argI' = 1
  /\ UNCHANGED <<DefaultArgs, user, argv, slices, handlerVars, memReservedBytes,
                 artDirs, artFiles, artMtime, memOp, gcVars>>

\* as MergeAndFilterArgsLoop, but an unsafe operand is dropped alone: its
\* flag is kept
MergeAndFilterArgsLoop_KeepsFlag ==
  /\ argI >= 1
  /\ argI <= Len(user)
  /\ LET a == TrimSpace(user[argI]) IN
       IF a = ""
         THEN /\ argI' = argI + 1
              /\ UNCHANGED result
       ELSE IF a \in PairFlags /\ argI + 1 <= Len(user)
         THEN LET next == TrimSpace(user[argI + 1]) IN
                /\ argI' = argI + 2
                /\ result' = IF safeArgPath(next)
                               THEN result \o <<a, next>>
                               ELSE Append(result, a)
       ELSE IF isBlockedArg(a)
         THEN /\ argI' = argI + 1
              /\ UNCHANGED result
       ELSE /\ argI' = argI + 1
            /\ result' = IF isAllowedArg(a) THEN Append(result, a) ELSE result
  /\ UNCHANGED <<DefaultArgs, user, argv, slices, handlerVars, memReservedBytes,
                 artDirs, artFiles, artMtime, memOp, gcVars>>

\* one iteration of the loop over user
MergeAndFilterArgsLoop ==
  /\ argI >= 1
  /\ argI <= Len(user)
  /\ LET a == TrimSpace(user[argI]) IN
       IF a = ""
         THEN /\ argI' = argI + 1
              /\ UNCHANGED result
       ELSE IF a \in PairFlags /\ argI + 1 <= Len(user)
         THEN LET next == TrimSpace(user[argI + 1]) IN
                /\ argI' = argI + 2
                /\ result' = IF safeArgPath(next)
                               THEN result \o <<a, next>>
                               ELSE result
       ELSE IF isBlockedArg(a)
         THEN /\ argI' = argI + 1
              /\ UNCHANGED result
       ELSE /\ argI' = argI + 1
            /\ result' = IF isAllowedArg(a) THEN Append(result, a) ELSE result
  /\ UNCHANGED <<DefaultArgs, user, argv, slices, handlerVars, memReservedBytes,
                 artDirs, artFiles, artMtime, memOp, gcVars>>

\* the loop is over: MergeAndFilterArgs has returned result
FilterReturned == argI > Len(user)

\* args = append(args, "-o", "app.js")
AppendOutput ==
  /\ FilterReturned
  /\ argv = <<>>
  /\ argv' = result \o << "-o", "app.js" >>
  /\ UNCHANGED <<DefaultArgs, user, argI, result, slices, handlerVars,
                 memReservedBytes, artDirs, artFiles, artMtime, memOp, gcVars>>

NextArgs ==
  \/ MergeAndFilterArgsEnter
  \/ MergeAndFilterArgsLoop
  \/ AppendOutput

SpecArgs == InitArgs /\ [][NextArgs]_vars

(***************************************************************************)
(* The same code with the argument vectors as Go slices, run by concurrent *)
(* requests.  A slice is a backing array in the heap (0 for none) and a    *)
(* length; its capacity is the length of the array.  append writes in      *)
(* place when the capacity allows and allocates a new array otherwise.     *)
(***************************************************************************)
\* tokens of the requests: one accepted, one dropped
SliceTokens == { "-O2", "evil" }

SliceVectors == UNION { [1..n -> SliceTokens] : n \in 0..MaxArgs }

\* spare capacity of the slice the configuration loader left in DefaultArgs
SpareValues == { <<>>, << "", "" >> }

Cap(h, s) == IF s.arr = 0 THEN 0 ELSE Len(h[s.arr])

\* the elements of slice s
Elems(h, s) == IF s.arr = 0 THEN <<>> ELSE SubSeq(h[s.arr], 1, s.len)

\* append(s, xs...): the heap and the slice returned
AppendSlice(h, s, xs) ==
  IF Len(xs) = 0 THEN [heap |-> h, slice |-> s]
  ELSE IF s.len + Len(xs) <= Cap(h, s)
    THEN [heap |-> [h EXCEPT ![s.arr] =
                      SubSeq(@, 1, s.len) \o xs
                        \o SubSeq(@, s.len + Len(xs) + 1, Len(@))],
          slice |-> [arr |-> s.arr, len |-> s.len + Len(xs)]]
    ELSE [heap |-> Append(h, Elems(h, s) \o xs),
          slice |-> [arr |-> Len(h) + 1, len |-> s.len + Len(xs)]]

\* one iteration of the loop of MergeAndFilterArgs at index k of u: the
\* tokens appended to result and the number of tokens consumed
Iteration(u, k) ==
  LET a == TrimSpace(u[k]) IN
    IF a = "" THEN [out |-> <<>>, used |-> 1]
    ELSE IF a \in PairFlags /\ k + 1 <= Len(u)
      THEN LET next == TrimSpace(u[k + 1]) IN
             [out |-> IF safeArgPath(next) THEN <<a, next>> ELSE <<>>,
              used |-> 2]
    ELSE IF isBlockedArg(a) THEN [out |-> <<>>, used |-> 1]
    ELSE [out |-> IF isAllowedArg(a) THEN <<a>> ELSE <<>>, used |-> 1]

\* every request carries its own vector; DefaultArgs is a slice of the
\* first backing array
InitSlices ==
  /\ CfgDefault
  /\ SrvInit
  /\ FsInit
  /\ ReqInit
  /\ MemIdle
  /\ GcIdle
  /\ DefaultArgs \in DefaultArgsValues
  /\ user = <<>>
  /\ argI = 0
  /\ result = <<>>
  /\ argv = <<>>
  /\ \E spare \in SpareValues, us \in [Reqs -> SliceVectors] :
       slices = [NoSlices EXCEPT
                   !.heap = << DefaultArgs \o spare >>,
                   !.def = [arr |-> 1, len |-> Len(DefaultArgs)],
                   !.user = us,
                   !.at = [r \in Reqs |-> "enter"]]

\* as SliceEnter, but result is the slice of the defaults itself
SliceEnter_Alias(r) ==
  /\ slices.at[r] = "enter"
  /\ slices' = [slices EXCEPT !.res[r] = slices.def,
                              !.i[r] = 1,
                              !.at[r] = "loop"]
  /\ UNCHANGED <<DefaultArgs, user, argI, result, argv, handlerVars,
                 memReservedBytes, artDirs, artFiles, artMtime, memOp, gcVars>>

\* result := append([]string{}, s.cfg.DefaultArgs...)
SliceEnter(r) ==
  /\ slices.at[r] = "enter"
  /\ LET ap == AppendSlice(slices.heap, NoSlice, Elems(slices.heap, slices.def)) IN
       slices' = [slices EXCEPT !.heap = ap.heap,
                                !.res[r] = ap.slice,
                                !.i[r] = 1,
                                !.at[r] = "loop"]
  /\ UNCHANGED <<DefaultArgs, user, argI, result, argv, handlerVars,
                 memReservedBytes, artDirs, artFiles, artMtime, memOp, gcVars>>

\* one iteration: result = append(result, ...)
SliceLoop(r) ==
  /\ slices.at[r] = "loop"
  /\ slices.i[r] <= Len(slices.user[r])
  /\ LET it == Iteration(slices.user[r], slices.i[r])
         ap == AppendSlice(slices.heap, slices.res[r], it.out) IN
       slices' = [slices EXCEPT !.heap = ap.heap,
                                !.res[r] = ap.slice,
                                !.i[r] = @ + it.used]
  /\ UNCHANGED <<DefaultArgs, user, argI, result, argv, handlerVars,
                 memReservedBytes, artDirs, artFiles, artMtime, memOp, gcVars>>

\* return result; args = append(args, "-o", "app.js")
SliceAppendOutput(r) ==
  /\ slices.at[r] = "loop"
  /\ slices.i[r] > Len(slices.user[r])
  /\ LET ap == AppendSlice(slices.heap, slices.res[r], << "-o", "app.js" >>) IN
       slices' = [slices EXCEPT !.heap = ap.heap,
                                !.res[r] = ap.slice,
                                !.at[r] = "built"]
  /\ UNCHANGED <<DefaultArgs, user, argI, result, argv, handlerVars,
                 memReservedBytes, artDirs, artFiles, artMtime, memOp, gcVars>>

\* append([]string{srcName}, args...): the command line reads the slice
SliceExec(r) ==
  /\ slices.at[r] = "built"
  /\ slices' = [slices EXCEPT !.argv[r] = Elems(slices.heap, slices.res[r]),
                              !.at[r] = "run"]
  /\ UNCHANGED <<DefaultArgs, user, argI, result, argv, handlerVars,
                 memReservedBytes, artDirs, artFiles, artMtime, memOp, gcVars>>

NextSlices ==
  \/ \E r \in Reqs : SliceEnter(r)
  \/ \E r \in Reqs : SliceLoop(r)
  \/ \E r \in Reqs : SliceAppendOutput(r)
  \/ \E r \in Reqs : SliceExec(r)

SpecSlices == InitSlices /\ [][NextSlices]_vars

\* the part of the filter output that comes from the user vector
UserDerived == SubSeq(result, Len(DefaultArgs) + 1, Len(result))

(***************************************************************************)
(* The admission counter under arbitrary calls: acquireMemory and          *)
(* releaseMemory called with any estimate HandleCompile can compute, in    *)
(* any order.  Each call changes the counter in one critical section.      *)
(***************************************************************************)
MaxReservedUnits == 8
ReservedUnit == 128 * MiB

\* values of jobMemoryEstimateMB, the non-positive ones included
MemEstimateMBValues == {-1, 0, 128, 256, 512}

\* the budget ensureMemBudget left: unlimited (0) or the value of memory.max
MemBudgetValues == {0, 512 * MiB, 1024 * MiB}

InitMem ==
  /\ CfgDefault
  /\ mu = NoOwner
  /\ memBudgetBytes \in MemBudgetValues
  /\ memReservedBytes = 0
  /\ FsInit
  /\ ReqInit
  /\ MemIdle
  /\ ArgsIdle
  /\ GcIdle

\* acquireMemory(ctx, n): one pass of the loop; n is the estimate the
\* handler computed from the configuration value mb
MemAcquire(mb) ==
  LET n == Estimate(mb) IN
  /\ memReservedBytes + n <= MaxReservedUnits * ReservedUnit
  /\ IF memBudgetBytes = 0
       THEN /\ memReservedBytes' = memReservedBytes + n
            /\ memOp' = [op |-> "acquire", n |-> n, before |-> memReservedBytes]
       ELSE \E file \in CurFileValues :
              LET c == readCgroupMemoryCurrent(file) IN
              IF ~c.err /\ CanReserve(c.v, memReservedBytes, n, memBudgetBytes)
                THEN /\ memReservedBytes' = memReservedBytes + n
                     /\ memOp' = [op |-> "acquire", n |-> n,
                                  before |-> memReservedBytes]
                ELSE /\ memReservedBytes' = memReservedBytes
                     /\ memOp' = [op |-> "wait", n |-> n,
                                  before |-> memReservedBytes]
  /\ UNCHANGED <<handlerVars, fsVars, argVars, gcVars>>

\* releaseMemory(n)
MemRelease(mb) ==
  LET n == Estimate(mb) IN
  /\ memReservedBytes' = releaseMemory(memReservedBytes, n)
  /\ memOp' = [op |-> "release", n |-> n, before |-> memReservedBytes]
  /\ UNCHANGED <<handlerVars, fsVars, argVars, gcVars>>

NextMem ==
  \/ \E mb \in MemEstimateMBValues : MemAcquire(mb)
  \/ \E mb \in MemEstimateMBValues : MemRelease(mb)

SpecMem == InitMem /\ [][NextMem]_vars

(***************************************************************************)
(* The artifact reclaimer (cleanup.go).  Time is counted in minutes.       *)
(***************************************************************************)
MaxScans == 3
StartTime == 2 * Day

\* values of artifactTTLDays and cleanupIntervalMins in the configuration
TTLDaysValues == {-1, 0, 1}
IntervalMinsValues == {0, Day}

\* ages, at start-up, of the artifact directories left by earlier runs
AgeValues == {1, Day, Day + 1}

\* name of a regular file lying in artifactsDir
StrayName == NumIDs + 1

\* s.cfg.ArtifactTTL as NewServer and StartCleanupLoop compute it
ArtifactTTL == ArtifactTTLDays * Day

\* the ticker interval
interval ==
  IF CleanupIntervalMins <= 0 THEN DefaultIntervalMins ELSE CleanupIntervalMins

\* the goroutine of StartCleanupLoop has been started
InitCleanup ==
  /\ CfgDefault
  /\ SrvInit
  /\ ReqInit
  /\ MemIdle
  /\ ArgsIdle
  /\ jobDirs = {}
  /\ jobFiles = [i \in IDs |-> {}]
  /\ ArtifactTTLDays \in TTLDaysValues
  /\ CleanupIntervalMins \in IntervalMinsValues
  /\ now = StartTime
  /\ artDirs \in SUBSET IDs
  /\ artFiles = [i \in IDs |-> IF i \in artDirs THEN CompilerOutputs ELSE {}]
  /\ artMtime \in [IDs -> {NoTime} \cup {StartTime - a : a \in AgeValues}]
  /\ \A i \in IDs : (artMtime[i] = NoTime) <=> (i \notin artDirs)
  /\ artStray \in BOOLEAN
  /\ gcPc = "readdir"
  /\ gcTodo = {}
  /\ gcDeleted = {}
  /\ gcScans = 0
  /\ gcErr = FALSE

\* the direct children of artifactsDir
Entries == artDirs \cup (IF artStray THEN {StrayName} ELSE {})

\* as GcReadDir, but a failed listing ends the loop
GcReadDir_ExitsOnError ==
  /\ gcPc = "readdir"
  /\ gcScans' = gcScans + 1
  /\ \E ok \in BOOLEAN :
       /\ gcErr' = ~ok
       /\ IF ok
            THEN /\ gcTodo' = Entries
                 /\ gcPc' = "entry"
            ELSE /\ gcTodo' = {}
                 /\ gcPc' = "exit"
  /\ UNCHANGED <<handlerVars, memReservedBytes, fsVars, memOp, argVars,
                 ArtifactTTLDays, CleanupIntervalMins, now, artStray,
                 gcDeleted>>

\* entries, err := os.ReadDir(dir); a failed listing skips the scan
GcReadDir ==
  /\ gcPc = "readdir"
  /\ gcScans' = gcScans + 1
  /\ \E ok \in BOOLEAN :
       /\ gcErr' = ~ok
       /\ IF ok
            THEN /\ gcTodo' = Entries
                 /\ gcPc' = "entry"
            ELSE /\ gcTodo' = {}
                 /\ gcPc' = "wait"
  /\ UNCHANGED <<handlerVars, memReservedBytes, fsVars, memOp, argVars,
                 ArtifactTTLDays, CleanupIntervalMins, now, artStray,
                 gcDeleted>>

\* the next entry in name order
NextEntry == CHOOSE e \in gcTodo : \A o \in gcTodo : e <= o

\* as GcEntry, but a directory is removed only when twice the TTL has passed
GcEntry_DoubleTTL ==
  /\ gcPc = "entry"
  /\ gcTodo # {}
  /\ LET e == NextEntry IN
       /\ gcTodo' = gcTodo \ {e}
       /\ \E statOk \in BOOLEAN, rmOk \in BOOLEAN :
            /\ gcErr' = (gcErr \/ ~statOk
                           \/ (e \in artDirs /\ now - artMtime[e] > 2 * ArtifactTTL /\ ~rmOk))
            /\ IF /\ statOk
                  /\ e \in artDirs
                  /\ now - artMtime[e] > 2 * ArtifactTTL
                  /\ rmOk
                 THEN /\ artDirs' = artDirs \ {e}
                      /\ artFiles' = [artFiles EXCEPT ![e] = {}]
                      /\ artMtime' = [artMtime EXCEPT ![e] = NoTime]
                      /\ gcDeleted' = gcDeleted \cup {e}
                 ELSE UNCHANGED <<artDirs, artFiles, artMtime, gcDeleted>>
  /\ UNCHANGED <<handlerVars, memReservedBytes, memOp, argVars,
                 ArtifactTTLDays, CleanupIntervalMins, now, artStray, gcPc,
                 gcScans>>

\* as GcEntry, but a directory is removed whatever its age
GcEntry_NoAgeTest ==
  /\ gcPc = "entry"
  /\ gcTodo # {}
  /\ LET e == NextEntry IN
       /\ gcTodo' = gcTodo \ {e}
       /\ \E statOk \in BOOLEAN, rmOk \in BOOLEAN :
            /\ gcErr' = (gcErr \/ ~statOk \/ (e \in artDirs /\ ~rmOk))
            /\ IF /\ statOk
                  /\ e \in artDirs
                  /\ rmOk
                 THEN /\ artDirs' = artDirs \ {e}
                      /\ artFiles' = [artFiles EXCEPT ![e] = {}]
                      /\ artMtime' = [artMtime EXCEPT ![e] = NoTime]
                      /\ gcDeleted' = gcDeleted \cup {e}
                 ELSE UNCHANGED <<artDirs, artFiles, artMtime, gcDeleted>>
  /\ UNCHANGED <<handlerVars, memReservedBytes, memOp, argVars,
                 ArtifactTTLDays, CleanupIntervalMins, now, artStray, gcPc,
                 gcScans>>

\* one entry of the listing: Stat, the directory test, the age test and
\* the best-effort RemoveAll
GcEntry ==
  /\ gcPc = "entry"
  /\ gcTodo # {}
  /\ LET e == NextEntry IN
       /\ gcTodo' = gcTodo \ {e}
       /\ \E statOk \in BOOLEAN, rmOk \in BOOLEAN :
            /\ gcErr' = (gcErr \/ ~statOk
                           \/ (e \in artDirs /\ now - artMtime[e] > ArtifactTTL /\ ~rmOk))
            /\ IF /\ statOk
                  /\ e \in artDirs
                  /\ now - artMtime[e] > ArtifactTTL
                  /\ rmOk
                 THEN /\ artDirs' = artDirs \ {e}
                      /\ artFiles' = [artFiles EXCEPT ![e] = {}]
                      /\ artMtime' = [artMtime EXCEPT ![e] = NoTime]
                      /\ gcDeleted' = gcDeleted \cup {e}
                 ELSE UNCHANGED <<artDirs, artFiles, artMtime, gcDeleted>>
  /\ UNCHANGED <<handlerVars, memReservedBytes, memOp, argVars,
                 ArtifactTTLDays, CleanupIntervalMins, now, artStray, gcPc,
                 gcScans>>

\* the listing is exhausted
GcEndScan ==
  /\ gcPc = "entry"
  /\ gcTodo = {}
  /\ gcPc' = "wait"
  /\ UNCHANGED <<handlerVars, memReservedBytes, fsVars, memOp, argVars,
                 ArtifactTTLDays, CleanupIntervalMins, now, artStray, gcTodo,
                 gcDeleted, gcScans, gcErr>>

\* <-ticker.C: the next scan starts one interval later
GcTick ==
  /\ gcPc = "wait"
  /\ gcScans < MaxScans
  /\ now' = now + interval
  /\ gcPc' = "readdir"
  /\ UNCHANGED <<handlerVars, memReservedBytes, fsVars, memOp, argVars,
                 ArtifactTTLDays, CleanupIntervalMins, artStray, gcTodo,
                 gcDeleted, gcScans, gcErr>>

NextCleanup ==
  \/ GcReadDir
  \/ GcEntry
  \/ GcEndScan
  \/ GcTick

SpecCleanup == InitCleanup /\ [][NextCleanup]_vars

\* the goroutine of the reclaimer is scheduled and its ticker fires
SpecCleanupLive == SpecCleanup /\ WF_vars(NextCleanup)

(***************************************************************************)
(* The reclaimer running beside the request handlers (Start launches       *)
(* StartCleanupLoop and then serves requests), gating off.  The clock      *)
(* moves with the ticks of the reclaimer; a handler is in flight for at    *)
(* most the 5-minute compile deadline, which is shorter than every         *)
(* interval, so at most one tick falls between the creation of its         *)
(* artifact directory and its return.                                      *)
(***************************************************************************)
\* the requests that have created their artifact directory and not returned
Promoting == {r \in Reqs : madeArtDir[r] # NoID /\ pc[r] # "done"}

InitRace ==
  /\ CfgDefault
  /\ SrvInit
  /\ FsInit
  /\ ReqInit
  /\ MemIdle
  /\ ArgsIdle
  /\ ArtifactTTLDays \in TTLDaysValues
  /\ CleanupIntervalMins \in IntervalMinsValues
  /\ now = StartTime
  /\ artStray = FALSE
  /\ gcPc = "readdir"
  /\ gcTodo = {}
  /\ gcDeleted = {}
  /\ gcScans = 0
  /\ gcErr = FALSE

\* <-ticker.C while at most one tick falls into the life of a handler
RaceTick ==
  /\ \A r \in Promoting :
       madeArtDir[r] \in artDirs => artMtime[madeArtDir[r]] = now
  /\ GcTick

NextRace ==
  \/ \E r \in Reqs : Receive(r)
  \/ \E r \in Reqs : Validate(r)
  \/ \E r \in Reqs : MkdirJob(r)
  \/ \E r \in Reqs : MkdirArt(r)
  \/ \E r \in Reqs : WriteSource(r)
  \/ \E r \in Reqs : CompileReturn(r)
  \/ \E r \in Reqs : RenameJS(r)
  \/ \E r \in Reqs : RenameWasm(r)
  \/ \E r \in Reqs : RemoveJobDir(r)
  \/ \E r \in Reqs : RespondOK(r)
  \/ \E r \in Reqs : Return(r)
  \/ GcReadDir
  \/ GcEntry
  \/ GcEndScan
  \/ RaceTick

SpecRace == InitRace /\ [][NextRace]_vars

(***************************************************************************)
(* Properties of the request handler and the admission controller (Spec).  *)
(***************************************************************************)

Others(r) == Reqs \ {r}

\* C1: with resource gating enabled, a request whose acquireMemory returned
\* success calls releaseMemory exactly once before the handler returns, on
\* every exit path after admission: never twice, and not zero times once
\* the handler has returned.
C1_ReleaseExactlyOnce ==
  \A r \in Reqs :
    (EnableResourceGating /\ acquireResult[r] = "ok") =>
      /\ releases[r] <= 1
      /\ pc[r] = "done" => releases[r] = 1
      /\ pc[r] # "done" => (releases[r] = 0 /\ deferRelease[r])

\* a request admitted under gating has returned after a failed compile
\* with one release
C1_Witness ==
  \E r \in Reqs :
    /\ EnableResourceGating
    /\ pc[r] = "done"
    /\ acquireResult[r] = "ok"
    /\ status[r] = 400
    /\ spawned[r]
    /\ releases[r] = 1

GrantStep(r) == acquireResult[r] # "ok" /\ acquireResult'[r] = "ok"

\* C2: with a positive budget, acquireMemory grants (reserved grows by the
\* estimate, success is returned) only in a step of the locked test in which
\* current + reserved + estimate <= budget holds for the memory.current
\* value read in that iteration; a test that fails leaves reserved as it is
\* and sends the request to wait for the next tick.
C2_GrantOnlyWithinBudget ==
  [][\A r \in Reqs :
       /\ (GrantStep(r) /\ max[r] > 0) =>
            /\ pc[r] = "acq_check"
            /\ mu = NoOwner
            /\ cur[r] + memReservedBytes + est <= memBudgetBytes
            /\ memReservedBytes' = memReservedBytes + est
       /\ (/\ pc[r] = "acq_check"
           /\ pc'[r] # "acq_check"
           /\ cur[r] + memReservedBytes + est > memBudgetBytes) =>
            /\ memReservedBytes' = memReservedBytes
            /\ acquireResult'[r] = "none"
            /\ pc'[r] = "acq_wait"]_vars

\* one request has just been granted by the locked test while the other,
\* refused by the same test, waits for the next tick
C2_Witness ==
  \E r \in Reqs :
    /\ pc[r] = "mkjob"
    /\ lastAttempt[r] = "granted"
    /\ \E o \in Others(r) : pc[o] = "acq_wait" /\ lastAttempt[o] = "refused"

CancelStep(r) == acquireResult[r] # "cancelled" /\ acquireResult'[r] = "cancelled"

\* C4: when acquireMemory returns the cancellation error the request has
\* not changed reserved; the handler answers 408, never calls
\* releaseMemory, creates no job or artifact directory and never starts the
\* compiler.
C4_CancelledLeavesNoTrace ==
  /\ [](\A r \in Reqs :
          acquireResult[r] = "cancelled" =>
            /\ pc[r] \in {"ret", "done"}
            /\ status[r] = 408
            /\ held[r] = 0
            /\ releases[r] = 0
            /\ ~deferRelease[r]
            /\ madeJobDir[r] = NoID
            /\ madeArtDir[r] = NoID
            /\ ~spawned[r])
  /\ [][\A r \in Reqs :
          CancelStep(r) =>
            /\ memReservedBytes' = memReservedBytes
            /\ UNCHANGED fsVars]_vars

\* a cancelled request has returned with 408 while another request holds a
\* reservation
C4_Witness ==
  \E r \in Reqs :
    /\ pc[r] = "done"
    /\ acquireResult[r] = "cancelled"
    /\ status[r] = 408
    /\ \E o \in Others(r) : held[o] > 0

\* C5 (as claimed): once the request context has been cancelled while the
\* handler waits in the select of acquireMemory, acquireMemory never returns
\* success.
C5_NoGrantAfterCancel ==
  \A r \in Reqs : cancelledWaiting[r] => acquireResult[r] # "ok"

\* C6 (as claimed): when the response of an admitted request is written,
\* its reservation has already been released: with no other request ever in
\* flight, reserved has its pre-request value (0).
C6_ReleasedBeforeResponse ==
  \A r \in Reqs :
    (/\ pc[r] = "ret"
     /\ acquireResult[r] = "ok"
     /\ \A o \in Others(r) : pc[o] = "idle") => memReservedBytes = 0

\* C6 (amended): the reservation of an admitted request is released by the
\* deferred releaseMemory when the handler returns, after the response is
\* written: with no other request ever in flight, reserved has its
\* pre-request value (0) once the handler has returned.
C6_ReleasedOnReturn ==
  \A r \in Reqs :
    (/\ pc[r] = "done"
     /\ acquireResult[r] = "ok"
     /\ \A o \in Others(r) : pc[o] = "idle") => memReservedBytes = 0

\* an admitted request has returned after a success response, alone
C6_Witness ==
  \E r \in Reqs :
    /\ pc[r] = "done"
    /\ acquireResult[r] = "ok"
    /\ status[r] = 200
    /\ memReservedBytes = 0
    /\ \A o \in Others(r) : pc[o] = "idle"

\* C7 (as claimed): the job directory a request created no longer exists
\* when its handler has returned, on every exit path.
C7_JobDirRemovedOnReturn ==
  \A r \in Reqs :
    (pc[r] = "done" /\ madeJobDir[r] # NoID) => madeJobDir[r] \notin jobDirs

(***************************************************************************)
(* Properties of the admission counter (SpecMem).                          *)
(***************************************************************************)

\* C3: reserved is never negative, whatever calls of acquireMemory and
\* releaseMemory are interleaved; releaseMemory(n) with n greater than
\* reserved sets reserved to 0, and otherwise subtracts n; releaseMemory on
\* reserved = 0 leaves it 0.  Every estimate the handler passes is positive.
C3_ReservedNeverNegative ==
  /\ memReservedBytes >= 0
  /\ \A mb \in MemEstimateMBValues : Estimate(mb) > 0
  /\ memOp.op = "release" =>
       /\ memOp.n > memOp.before => memReservedBytes = 0
       /\ memOp.n <= memOp.before => memReservedBytes = memOp.before - memOp.n
       /\ memOp.before = 0 => memReservedBytes = 0

\* releaseMemory was called with n greater than a positive reserved and
\* left 0
C3_Witness ==
  /\ memOp.op = "release"
  /\ memOp.before > 0
  /\ memOp.n > memOp.before
  /\ memReservedBytes = 0

(***************************************************************************)
(* Properties of the reclaimer (SpecCleanup).                              *)
(***************************************************************************)

\* C8 (as claimed): when artifactTTLDays is 0 or negative the cleanup loop
\* never deletes a directory under artifactsDir, in any scan.
C8_NonPositiveTTLDisables ==
  ArtifactTTLDays <= 0 => gcDeleted = {}

(***************************************************************************)
(* Properties of the argument filter (SpecArgs).                           *)
(***************************************************************************)

\* C9 (as claimed): the output of MergeAndFilterArgs contains no element
\* equal to "-o" and no element starting with "-o=" (the defaults contain
\* neither).
C9_NoOutputFlag ==
  FilterReturned =>
    \A k \in 1..Len(result) :
      result[k] # "-o" /\ ~HasPrefix(result[k], "-o=")

\* C10 (as claimed): in the user-derived part of the output of
\* MergeAndFilterArgs, a token that immediately follows --preload-file,
\* --embed-file or --source-map-base neither starts with "/" nor contains
\* "..".
C10_OperandPathSafe ==
  FilterReturned =>
    \A k \in 1..(Len(UserDerived) - 1) :
      UserDerived[k] \in PairFlags =>
        /\ ~HasPrefix(UserDerived[k + 1], "/")
        /\ ~Contains(UserDerived[k + 1], "..")

\* C11: for a two-element user vector [--preload-file, P] the user-derived
\* part of the output of MergeAndFilterArgs is either exactly
\* [--preload-file, trimmed P] or empty: never the flag alone, never the
\* operand alone.
C11_PairAtomic ==
  (FilterReturned /\ Len(user) = 2 /\ user[1] = "--preload-file") =>
    \/ UserDerived = << "--preload-file", TrimSpace(user[2]) >>
    \/ UserDerived = <<>>

\* a pair whose operand carries surrounding blanks has been accepted, the
\* operand trimmed
C11_Witness ==
  /\ FilterReturned
  /\ Len(user) = 2
  /\ user[1] = "--preload-file"
  /\ TrimSpace(user[2]) # user[2]
  /\ UserDerived = << "--preload-file", TrimSpace(user[2]) >>

\* the user vector as the loop reads it: every token trimmed
Trimmed == [i \in 1..Len(user) |-> TrimSpace(user[i])]

\* s can be obtained from t by deleting elements
RECURSIVE IsSubseq(_, _)
IsSubseq(s, t) ==
  IF s = <<>> THEN TRUE
  ELSE IF t = <<>> THEN FALSE
  ELSE IF Head(s) = Head(t) THEN IsSubseq(Tail(s), Tail(t))
  ELSE IsSubseq(s, Tail(t))

\* C12: the output of MergeAndFilterArgs starts with the configured
\* defaults verbatim, and the elements after them are user tokens (trimmed)
\* in the relative order they have in the user vector.
C12_DefaultsThenUserOrder ==
  argI >= 1 =>
    /\ Len(result) >= Len(DefaultArgs)
    /\ SubSeq(result, 1, Len(DefaultArgs)) = DefaultArgs
    /\ IsSubseq(UserDerived, Trimmed)

\* with the four default arguments, a three-token vector has been
\* filtered to its first and last token
C12_Witness ==
  /\ FilterReturned
  /\ Len(DefaultArgs) = 4
  /\ Len(user) = 3
  /\ UserDerived = << Trimmed[1], Trimmed[3] >>
  /\ Trimmed[1] # Trimmed[3]

\* C13: when no token of the user vector (as trimmed by the loop) matches
\* an allow rule or a block rule or is a pair flag, the output of
\* MergeAndFilterArgs equals the defaults exactly.
C13_UnknownIsDeny ==
  (/\ FilterReturned
   /\ \A i \in 1..Len(user) :
         /\ \A p \in allowedPrefix : ~HasPrefix(Trimmed[i], p)
         /\ \A b \in blocked :
              Trimmed[i] # b /\ ~HasPrefix(Trimmed[i], b \o "=")
         /\ Trimmed[i] \notin PairFlags) =>
    result = DefaultArgs

\* three unknown tokens, none of them blank, have been filtered away from
\* behind the four default arguments
C13_Witness ==
  /\ FilterReturned
  /\ Len(user) = 3
  /\ \A i \in 1..3 : Trimmed[i] # "" /\ ~HasPrefix(Trimmed[i], "-")
  /\ user[1] # user[2]
  /\ Len(DefaultArgs) = 4
  /\ result = DefaultArgs

\* a trimmed token that the rules accept on its own: some allow rule
\* matches and no block rule does
RuleAccepts(a) ==
  /\ \E p \in allowedPrefix : HasPrefix(a, p)
  /\ \A b \in blocked : a # b /\ ~HasPrefix(a, b \o "=")

\* an operand that path-safety rejects
UnsafeOperand(p) == HasPrefix(p, "/") \/ Contains(p, "..")

\* C14: with empty defaults the example vector is filtered to exactly
\* ["-O2", "-sEXPORTED_FUNCTIONS=[_main]"]; in general every blocked or
\* unknown token and every unsafe pair is dropped and the other tokens are
\* accepted as they would be alone: without pair flags the output is the
\* trimmed vector restricted to the tokens the rules accept, and one unsafe
\* pair among tokens that are no pair flags is dropped without a trace.
C14_DropsAreIndependent ==
  FilterReturned =>
    /\ (user = ExampleArgs /\ DefaultArgs = <<>>) =>
         result = << "-O2", "-sEXPORTED_FUNCTIONS=[_main]" >>
    /\ (\A i \in 1..Len(user) : Trimmed[i] \notin PairFlags) =>
         UserDerived = SelectSeq(Trimmed, RuleAccepts)
    /\ \A k \in 1..(Len(user) - 1) :
         (/\ Trimmed[k] \in PairFlags
          /\ UnsafeOperand(Trimmed[k + 1])
          /\ \A i \in 1..Len(user) :
                i \notin {k, k + 1} => Trimmed[i] \notin PairFlags) =>
           UserDerived =
             SelectSeq(SubSeq(Trimmed, 1, k - 1)
                         \o SubSeq(Trimmed, k + 2, Len(user)), RuleAccepts)

\* the example vector has been filtered, with empty defaults
C14_Witness ==
  /\ FilterReturned
  /\ user = ExampleArgs
  /\ DefaultArgs = <<>>
  /\ result = << "-O2", "-sEXPORTED_FUNCTIONS=[_main]" >>

C16_UnreadableDisablesGating ==
  \A r \in Reqs :
    (EnableResourceGating /\ CgroupV2Root # "") =>
      /\ ~(status[r] = 500 /\ acquireResult[r] = "none")
      /\ ~(pc[r] = "acq_wait" /\ lastAttempt[r] = "probe_err")

\* C17 (as claimed): with gating enabled and an empty cgroup root,
\* readCgroupMemoryMax returns 0 without an error, so the request is treated
\* as unlimited and is never answered with the gating error.
C17_EmptyRootIsUnlimited ==
  \A r \in Reqs :
    (EnableResourceGating /\ CgroupV2Root = "") =>
      ~(status[r] = 500 /\ acquireResult[r] = "none")

\* C18: a request that is reading a cgroup file (memory.max or
\* memory.current) or is blocked in the select does not hold the mutex.
C18_NoReadUnderLock ==
  \A r \in Reqs :
    pc[r] \in {"ens_read", "acq_probe", "acq_wait"} => mu # r

\* ensureMemBudget has returned nil to the request
PassedEnsure(r) ==
  EnableResourceGating /\ (InAcquire(r) \/ acquireResult[r] # "none")

\* C19: once a gated request has completed ensureMemBudget
\* successfully, no other request reads memory.max again, whatever budget
\* (0 included) the first read produced.
C19_BudgetDerivedOnce ==
  \A r \in Reqs :
    (\E o \in Others(r) : PassedEnsure(o)) => pc[r] # "ens_read"

\* a step in which request r leaves the locked reservation test
TestStep(r) == pc[r] = "acq_check" /\ pc'[r] # "acq_check"

\* C20 (as claimed): with a budget of 1 GiB, an estimate of 256 MiB and
\* memory.current read as 900 MiB, the request tested while nothing is
\* reserved is admitted, and the request tested while the first holds its
\* reservation waits.
C20_FirstAdmittedAt900 ==
  [][\A r \in Reqs :
       (TestStep(r) /\ max[r] = 1024 * MiB /\ cur[r] = 900 * MiB
          /\ est = 256 * MiB) =>
         IF memReservedBytes = 0
           THEN acquireResult'[r] = "ok"
           ELSE pc'[r] = "acq_wait"]_vars

\* C20 (amended): with a budget of 1 GiB and an estimate of 256 MiB, a request
\* whose probe read memory.current as 900 MiB is not admitted, even when
\* nothing is reserved (900 + 256 > 1024): it reserves nothing and waits;
\* once memory.current is read as 600 MiB the request tested while nothing is
\* reserved is admitted and the one tested while that reservation is held
\* waits; a waiting request leaves the wait only for another attempt or,
\* cancelled, with 408; 200 is answered only to an admitted request.
C20_NoneAdmittedAt900 ==
  [][\A r \in Reqs :
       /\ (TestStep(r) /\ max[r] = 1024 * MiB /\ cur[r] = 900 * MiB
             /\ est = 256 * MiB) =>
            /\ pc'[r] = "acq_wait"
            /\ acquireResult'[r] = "none"
            /\ memReservedBytes' = memReservedBytes
       /\ (TestStep(r) /\ max[r] = 1024 * MiB /\ cur[r] = 600 * MiB
             /\ est = 256 * MiB) =>
            IF memReservedBytes = 0
              THEN /\ acquireResult'[r] = "ok"
                   /\ memReservedBytes' = 256 * MiB
              ELSE /\ pc'[r] = "acq_wait"
                   /\ memReservedBytes' = memReservedBytes
       /\ (pc[r] = "acq_wait" /\ pc'[r] # "acq_wait") =>
            \/ pc'[r] = "acq_top"
            \/ status'[r] = 408 /\ acquireResult'[r] = "cancelled"
       /\ (EnableResourceGating /\ status[r] # 200 /\ status'[r] = 200) =>
            acquireResult[r] = "ok"]_vars

\* two concurrent requests, none ever admitted: one waits after its
\* reservation test refused it with nothing reserved (memory.current read as
\* 900 MiB), the other is inside acquireMemory too
C20_Witness ==
  \E r \in Reqs :
    /\ pc[r] = "acq_wait" /\ lastAttempt[r] = "refused"
    /\ max[r] = 1024 * MiB /\ est = 256 * MiB
    /\ \A o \in Reqs : acquireResult[o] = "none"
    /\ \E o \in Others(r) : InAcquire(o)

\* the requests that hold a reservation
Holders == {r \in Reqs : held[r] > 0}

\* C21: with a positive budget, whenever the locked test grants on a
\* memory.current reading c, the number of requests holding a reservation
\* after the grant is at most floor((budget - c) / estimate); between grants
\* the number only falls, so with c constant the bound holds at all times.
C21_HoldersBounded ==
  [][\A r \in Reqs :
       /\ (GrantStep(r) /\ max[r] > 0) =>
            Cardinality({o \in Reqs : held'[o] > 0}) <= (max[r] - cur[r]) \div est
       /\ (memBudgetBytes > 0 /\ ~(\E o \in Reqs : GrantStep(o))) =>
            {o \in Reqs : held'[o] > 0} \subseteq Holders]_vars

\* both requests hold a reservation at once, each granted by the locked test
\* (memory.current read as 0: four estimates fit into the budget)
C21_Witness ==
  /\ memBudgetBytes = 1024 * MiB
  /\ \A r \in Reqs : held[r] = est /\ lastAttempt[r] = "granted"
  /\ memReservedBytes = NumReqs * est

\* C22: once a request has been answered 200, its artifact directory holds
\* either both app.js and app.wasm or neither.
C22_BothOrNeither ==
  \A r \in Reqs :
    (status[r] = 200 /\ madeArtDir[r] \in artDirs) =>
      artFiles[madeArtDir[r]] \in {{}, CompilerOutputs}

\* the compiler of request r was started and r was answered 400
CompileFailed(r) == spawned[r] /\ status[r] = 400

\* C23: a request whose compiler failed leaves its artifact directory in
\* place and writes no file into it: after the 400 response the directory
\* exists, the steps of the failed request change neither the set of artifact
\* directories nor their files, files enter an artifact directory only by the
\* renames of a request whose compiler exited 0, and the directory is empty
\* unless such a request drew the same id.
C23_FailureKeepsEmptyArtDir ==
  /\ [](\A r \in Reqs :
          CompileFailed(r) =>
            /\ madeArtDir[r] \in artDirs
            /\ (\A o \in Others(r) : madeArtDir[o] # madeArtDir[r]) =>
                 artFiles[madeArtDir[r]] = {})
  /\ [][/\ artDirs \subseteq artDirs'
        /\ \A i \in IDs :
             artFiles'[i] # artFiles[i] =>
               \E r \in Reqs : /\ id[r] = i
                               /\ pc[r] \in {"rename_js", "rename_wasm"}
                               /\ cmdErr[r] = "exit0"
                               /\ pc'[r] # pc[r]]_vars

\* a request whose compiler failed has returned; its artifact directory is
\* there, empty
C23_Witness ==
  \E r \in Reqs :
    /\ pc[r] = "done"
    /\ CompileFailed(r)
    /\ madeArtDir[r] \in artDirs
    /\ artFiles[madeArtDir[r]] = {}

(***************************************************************************)
(* Properties of the reclaimer (SpecCleanup).                              *)
(***************************************************************************)
\* C24: with a positive TTL, a step of the reclaimer removes an entry of
\* artifactsDir only if it is a directory whose age now - mtime exceeds the
\* TTL at that moment; a directory of age <= TTL and a regular file are
\* never removed.
C24_DeletesOnlyExpiredDirs ==
  [][ArtifactTTL > 0 =>
       /\ \A i \in IDs :
            (i \in artDirs /\ i \notin artDirs') =>
              /\ gcPc = "entry"
              /\ now - artMtime[i] > ArtifactTTL
       /\ gcDeleted' \subseteq gcDeleted \cup artDirs
       /\ artStray' = artStray]_vars

\* a scan with a positive TTL is over: it removed a directory, and left a
\* directory whose age is exactly the TTL and the regular file
C24_Witness ==
  /\ ArtifactTTL > 0
  /\ gcPc = "wait"
  /\ gcDeleted # {}
  /\ artStray
  /\ \E i \in artDirs : now - artMtime[i] = ArtifactTTL

\* C25: with a positive TTL, a scan in which the listing, every Stat and
\* every removal succeeded leaves no directory whose age exceeds the TTL;
\* when every scan so far succeeded, no directory is ever older than the TTL
\* plus one interval once the first scan is over.
C25_ExpiredRemovedByNextScan ==
  /\ [](( ArtifactTTL > 0 /\ gcPc = "wait" /\ ~gcErr) =>
          \A i \in artDirs : now - artMtime[i] <= ArtifactTTL)
  /\ [][(ArtifactTTL > 0 /\ gcPc = "wait" /\ ~gcErr) =>
          \A i \in artDirs' : now' - artMtime'[i] <= ArtifactTTL + interval]_vars

\* the second scan is over without a failure: a directory has been removed
\* and the directories that remain are within the TTL
C25_Witness ==
  /\ ArtifactTTL > 0
  /\ gcPc = "wait"
  /\ ~gcErr
  /\ gcScans = 2
  /\ gcDeleted # {}
  /\ artDirs # {}

\* C27: the first scan starts at start-up, before any tick; there is one
\* scan per tick; a failed listing, Stat or removal does not end the loop:
\* every entry of a listing is processed in turn, and each scan, failed or
\* not, is followed by the next one.
C27_ScansNeverStop ==
  /\ [](gcScans = 0 => (gcPc = "readdir" /\ now = StartTime))
  /\ [](now = StartTime + interval *
                   (IF gcPc = "readdir" THEN gcScans ELSE gcScans - 1))
  /\ [](gcPc \in {"readdir", "entry", "wait"})
  /\ [][(gcPc = "entry" /\ gcTodo # {}) =>
          /\ gcPc' = "entry"
          /\ gcTodo' = gcTodo \ {NextEntry}]_vars
  /\ \A n \in 1..(MaxScans - 1) : (gcScans = n) ~> (gcScans = n + 1)
  /\ <>(gcScans = MaxScans /\ gcPc = "wait")

\* the last scan is running after a tick; a Stat or removal in it has
\* failed and entries of its listing are still to be processed
C27_Witness ==
  /\ gcScans = MaxScans
  /\ gcPc = "entry"
  /\ gcErr
  /\ gcTodo # {}

(***************************************************************************)
(* Properties of the reclaimer beside the handlers (SpecRace).             *)
(***************************************************************************)
\* C26: between the creation of its artifact directory and the end of its
\* promotion, the artifact directory of a request exists: no scan of the
\* reclaimer has removed it.
C26_NoReclaimInFlight ==
  \A r \in Reqs :
    (pc[r] \in {"write", "compiling", "rename_js", "rename_wasm"}
       /\ madeArtDir[r] # NoID) => madeArtDir[r] \in artDirs

(***************************************************************************)
(* Properties of request validation (Spec).                                *)
(***************************************************************************)
\* the step in which request r is validated
ValidateStep(r) == pc[r] = "received" /\ pc'[r] # "received"

\* C28: the checks are made in the order method, JSON, code, type, and the
\* first that fails decides the response (405 for the method, 400 for the
\* others); the rejecting step changes neither the counters nor the file
\* system, and a rejected request has no id, no job or artifact directory,
\* no compiler run and no reservation.
C28_RejectedBeforeAdmission ==
  /\ [](\A r \in Reqs :
          errText[r] # "" =>
            /\ status[r] \in {400, 405}
            /\ pc[r] \in {"ret", "done"}
            /\ id[r] = NoID /\ madeJobDir[r] = NoID /\ madeArtDir[r] = NoID
            /\ ~spawned[r]
            /\ acquireResult[r] = "none" /\ held[r] = 0 /\ ~deferRelease[r])
  /\ [][\A r \in Reqs :
          /\ ValidateStep(r) =>
               /\ status'[r] =
                    IF req[r].method # "POST" THEN 405
                    ELSE IF ~req[r].jsonOK \/ req[r].codeBlank \/ ~req[r].typeOK
                           THEN 400 ELSE 0
               /\ errText'[r] =
                    IF req[r].method # "POST" THEN "method not allowed"
                    ELSE IF ~req[r].jsonOK THEN "invalid JSON"
                    ELSE IF req[r].codeBlank THEN "code is required"
                    ELSE IF ~req[r].typeOK THEN "type must be 'c' or 'cpp'"
                    ELSE ""
          /\ (errText'[r] # "" /\ pc'[r] # pc[r]) =>
               UNCHANGED <<srvVars, fsVars>>]_vars

\* a request has been rejected for its blank code and has returned, while
\* another request holds a reservation
C28_Witness ==
  \E r \in Reqs :
    /\ pc[r] = "done"
    /\ status[r] = 400
    /\ errText[r] = "code is required"
    /\ \E o \in Others(r) : held[o] > 0 /\ memReservedBytes > 0

\* C29: once the client of a request has disconnected while its compiler
\* runs, the compiler does not run to completion and is not left running
\* until the 5-minute deadline: cmd.CombinedOutput() returns neither with
\* exit 0 nor with the deadline's kill.
C29_DisconnectAbortsCompile ==
  [][\A r \in Reqs :
       (pc[r] = "compiling" /\ ctxDone[r] /\ pc'[r] # "compiling") =>
         cmdErr'[r] \notin {"exit0", "deadline"}]_vars

\* C30: two requests in flight at the same time never have the same id, so
\* their job directories and their artifact directories are distinct and no
\* handler touches the directory of another.
C30_DirsExclusivelyOwned ==
  \A r \in Reqs : \A o \in Others(r) :
    (InFlight(r) /\ InFlight(o) /\ id[r] # NoID) => id[r] # id[o]

(***************************************************************************)
(* Properties of the compile and promotion phases.                         *)
(***************************************************************************)
\* C31: a request whose compiler has been started eventually returns, having
\* been answered 200 or 400 and holding no reservation; a compile killed by
\* the deadline is answered 400, and 200 is answered only after exit 0.
C31_CompilingEnds ==
  /\ \A r \in Reqs :
       (pc[r] = "compiling") ~>
         (pc[r] = "done" /\ status[r] \in {200, 400} /\ held[r] = 0
            /\ ~deferRelease[r])
  /\ [][\A r \in Reqs :
          /\ (pc[r] = "compiling" /\ cmdErr'[r] = "deadline") =>
               (status'[r] = 400 /\ pc'[r] = "ret")
          /\ (status[r] # 200 /\ status'[r] = 200) => cmdErr[r] = "exit0"]_vars

\* the compiler of a request was killed by the deadline: the request has
\* been answered 400 and still holds the reservation it is about to release
C31_Witness ==
  \E r \in Reqs :
    /\ pc[r] = "ret"
    /\ cmdErr[r] = "deadline"
    /\ status[r] = 400
    /\ held[r] = est /\ deferRelease[r]

\* request r moves to label l
Enters(r, l) == pc[r] # l /\ pc'[r] = l

Outstanding == {r \in Reqs : deferRelease[r]}

\* C33: with gating enabled, reserved is the estimate times the number of
\* requests admitted and not yet released; so releaseMemory never finds the
\* estimate above reserved, and reserved is 0 when no request is in flight.
C33_ReservedIsSumOfEstimates ==
  /\ [](memReservedBytes = est * Cardinality(Outstanding))
  /\ []((\A r \in Reqs : ~InFlight(r)) => memReservedBytes = 0)
  /\ [][\A r \in Reqs :
          (deferRelease[r] /\ ~deferRelease'[r]) =>
            /\ est <= memReservedBytes
            /\ memReservedBytes' = memReservedBytes - est]_vars

\* one admitted request has released and returned while another still holds
\* its reservation
C33_Witness ==
  /\ EnableResourceGating
  /\ memReservedBytes = est
  /\ \E r \in Reqs :
       /\ deferRelease[r]
       /\ \E o \in Others(r) : pc[o] = "done" /\ releases[o] = 1

(***************************************************************************)
(* Properties of the argument vectors as slices (SpecSlices).              *)
(***************************************************************************)
\* the tokens the filter emits for vector u from index k on
RECURSIVE Filtered(_, _)
Filtered(u, k) ==
  IF k > Len(u) THEN <<>>
  ELSE Iteration(u, k).out \o Filtered(u, k + Iteration(u, k).used)

\* C34: the configured DefaultArgs, and the backing array they live in, are
\* never written; the command line of a request is the defaults, the tokens
\* the filter accepts from the request's own vector, then "-o", "app.js",
\* whatever the other requests send and however the requests interleave.
C34_DefaultsNeverModified ==
  /\ slices.def = [arr |-> 1, len |-> Len(DefaultArgs)]
  /\ Elems(slices.heap, slices.def) = DefaultArgs
  /\ \A k \in (Len(DefaultArgs) + 1)..Len(slices.heap[1]) : slices.heap[1][k] = ""
  /\ \A r \in Reqs :
       slices.at[r] = "run" =>
         slices.argv[r] =
           DefaultArgs \o Filtered(slices.user[r], 1) \o << "-o", "app.js" >>

\* two requests with different vectors have both run, on defaults whose
\* slice has spare capacity
C34_Witness ==
  /\ Len(slices.heap[1]) > Len(DefaultArgs)
  /\ \A r \in Reqs : slices.at[r] = "run"
  /\ \E r \in Reqs : \E o \in Others(r) :
       /\ Filtered(slices.user[r], 1) # Filtered(slices.user[o], 1)
       /\ slices.argv[r] # slices.argv[o]

(***************************************************************************)
(* Further properties of the argument filter (SpecArgs).                   *)
(***************************************************************************)
\* reading s from the left, every pair flag in flag position has a token
\* after it, which is its operand
RECURSIVE WellPaired(_)
WellPaired(s) ==
  IF s = <<>> THEN TRUE
  ELSE IF Head(s) \in PairFlags
    THEN Len(s) >= 2 /\ WellPaired(Tail(Tail(s)))
  ELSE WellPaired(Tail(s))

\* C35: in the user-derived part of the output of MergeAndFilterArgs every
\* pair flag is followed by its operand, so the output never ends with a
\* pair flag waiting for one, and in the argv the appended "-o" is never the
\* operand of a pair flag.
C35_PairFlagHasOperand ==
  /\ FilterReturned => WellPaired(UserDerived)
  /\ argv # <<>> =>
       WellPaired(SubSeq(argv, Len(DefaultArgs) + 1, Len(argv) - 2))

\* C36: for a user vector without pair flags, every token of the
\* user-derived output matches an allow rule, matches no block rule, and
\* does not start with the text of a blocked flag ("-o", "--shell-file",
\* "-sFORCE_FILESYSTEM", "-sENVIRONMENT=node").
C36_NoBlockedTextAccepted ==
  (FilterReturned /\ \A i \in 1..Len(user) : Trimmed[i] \notin PairFlags) =>
    \A k \in 1..Len(UserDerived) :
      /\ isAllowedArg(UserDerived[k])
      /\ ~isBlockedArg(UserDerived[k])
      /\ \A b \in blocked : ~HasPrefix(UserDerived[k], b)

====
